---- MODULE Spec2Model ----
(***************************************************************************)
(* Discrete Interval Encoding Tree of gallifrey (src/tree.go).             *)
(*                                                                         *)
(* Nodes live in a heap: heap[t] is the sequence of the node objects of    *)
(* tree t, a node's address is its index, NIL is the absent pointer.       *)
(* insert allocates (appends) and never writes to an existing node;        *)
(* balance rewrites left/right pointers in place.                          *)
(***************************************************************************)
EXTENDS Integers, Sequences, FiniteSets, TLC

\* ------------------------------------------------------------------ bounds
\* Integers of the single-tree specification Spec are drawn from 0..MaxVal.
MaxVal == 5
\* Integers of the two-tree specification SpecTwo are drawn from 0..MaxValTwo.
MaxValTwo == 3
\* Single integers of the specification SpecSingles are drawn from 0..MaxSingle.
MaxSingle == 10
\* Integers of the insert-only specification SpecInserts: 0..MaxIns.
MaxIns == 6
\* Integers of the disjoint-insert specification SpecDisjoint: 0..MaxDisj.
MaxDisj == 8
\* Arguments of nearestPow2 in the specification SpecPow2: 1..MaxPow.
MaxPow == 70

NIL == 0

Trees == {"A", "B"}

VARIABLES
    root,      \* root[t]: intervalTree.root, a node address or NIL
    heap,      \* heap[t]: the node objects reachable from root[t]
    covered,   \* covered[t]: history, every integer an Insert on t was given
    lastOp,    \* the operation that ran last
    watch,     \* history: at most one interval an Insert on "A" was given
    pin,       \* the argument of a direct call of nearestPow2
    pout       \* the value that call returned

vars == <<root, heap, covered, lastOp, watch, pin, pout>>

\* ------------------------------------------------------- Interval (spec 6)
NewInterval(s, e) == [s |-> s, e |-> e]

Start(i) == i.s

End(i) == i.e

Overlaps(a, b) == a.s <= b.e /\ b.s <= a.e

IntervalContains(a, other) == a.s <= other.s /\ other.e <= a.e

LessThan(a, other) == a.e < other.s

GreaterThan(a, other) == a.s > other.e

StartsBefore(a, other) == a.s < other.s /\ Overlaps(a, other)

EndsAfter(a, other) == a.e > other.e /\ Overlaps(a, other)

Adjacent(a, other, gap) == a.e + gap = other.s \/ other.e + gap = a.s

Extend(a, other) ==
    NewInterval(IF a.s <= other.s THEN a.s ELSE other.s,
                IF a.e >= other.e THEN a.e ELSE other.e)

Intervals(max) == {i \in [s : 0..max, e : 0..max] : i.s <= i.e}

Ints(i) == i.s .. i.e

\* ------------------------------------------------------------------- node
Node(i, left, right) == [i |-> i, left |-> left, right |-> right]

\* &node{...}: the new object gets the next free address.
Alloc(h, n) == [h |-> Append(h, n), n |-> Len(h) + 1]

RECURSIVE splitMax(_, _, _, _)
splitMax(h, interval, left, right) ==
    IF right = NIL
    THEN [i |-> interval, n |-> left, h |-> h]
    ELSE LET sub == splitMax(h, h[right].i, h[right].left, h[right].right)
             a   == Alloc(sub.h, Node(interval, left, sub.n))
         IN  [i |-> sub.i, n |-> a.n, h |-> a.h]

RECURSIVE splitMin(_, _, _, _)
splitMin(h, interval, left, right) ==
    IF left = NIL
    THEN [i |-> interval, n |-> right, h |-> h]
    ELSE LET sub == splitMin(h, h[left].i, h[left].left, h[left].right)
             a   == Alloc(sub.h, Node(interval, sub.n, right))
         IN  [i |-> sub.i, n |-> a.n, h |-> a.h]

\* joinLeft that reuses the node left for the merged interval, writing to it.
joinLeftReuse(h, interval, left, right) ==
    LET sub == IF left # NIL
               THEN splitMax(h, h[left].i, h[left].left, h[left].right)
               ELSE [i |-> interval, n |-> NIL, h |-> h]
    IN  IF left # NIL /\ Adjacent(sub.i, interval, 1)
        THEN [h |-> [sub.h EXCEPT
                       ![left] = Node(Extend(sub.i, interval), sub.n, right)],
              n |-> left]
        ELSE Alloc(sub.h, Node(interval, left, right))

joinLeft(h, interval, left, right) ==
    LET sub == IF left # NIL
               THEN splitMax(h, h[left].i, h[left].left, h[left].right)
               ELSE [i |-> interval, n |-> NIL, h |-> h]
    IN  IF left # NIL /\ Adjacent(sub.i, interval, 1)
        THEN Alloc(sub.h, Node(Extend(sub.i, interval), sub.n, right))
        ELSE Alloc(sub.h, Node(interval, left, right))

\* joinRight that never looks for an adjacent minimum in right.
joinRightNoMerge(h, interval, left, right) ==
    Alloc(h, Node(interval, left, right))

joinRight(h, interval, left, right) ==
    LET sub == IF right # NIL
               THEN splitMin(h, h[right].i, h[right].left, h[right].right)
               ELSE [i |-> interval, n |-> NIL, h |-> h]
    IN  IF right # NIL /\ Adjacent(sub.i, interval, 1)
        THEN Alloc(sub.h, Node(Extend(interval, sub.i), left, sub.n))
        ELSE Alloc(sub.h, Node(interval, left, right))

\* insert that rebuilds the node with d.left in the place of d.right when it
\* recurses to the left.
RECURSIVE insertLosesRight(_, _, _)
insertLosesRight(h, interval, d) ==
    IF d = NIL THEN Alloc(h, Node(interval, NIL, NIL))
    ELSE LET di == h[d].i IN
      IF IntervalContains(di, interval) THEN [h |-> h, n |-> d]
      ELSE IF LessThan(interval, di) THEN
             IF Adjacent(interval, di, 1)
             THEN joinLeft(h, NewInterval(Start(interval), End(di)),
                           h[d].left, h[d].right)
             ELSE LET sub == insertLosesRight(h, interval, h[d].left)
                  IN  Alloc(sub.h, Node(di, sub.n, h[d].left))
      ELSE IF GreaterThan(interval, di) THEN
             IF Adjacent(interval, di, 1)
             THEN joinRight(h, Extend(di, interval), h[d].left, h[d].right)
             ELSE LET sub == insertLosesRight(h, interval, h[d].right)
                  IN  Alloc(sub.h, Node(di, h[d].left, sub.n))
      ELSE IF IntervalContains(interval, di) THEN
             LET left == joinLeft(h, Extend(interval, di), h[d].left, h[d].right)
                 ln   == left.h[left.n]
             IN  joinRight(left.h, NewInterval(Start(ln.i), End(interval)),
                           ln.left, ln.right)
      ELSE IF StartsBefore(interval, di) THEN
             joinLeft(h, NewInterval(Start(interval), End(di)),
                      h[d].left, h[d].right)
      ELSE IF EndsAfter(interval, di) THEN
             joinRight(h, NewInterval(Start(di), End(interval)),
                       h[d].left, h[d].right)
      ELSE [h |-> h, n |-> d]

RECURSIVE insert(_, _, _)
insert(h, interval, d) ==
    IF d = NIL THEN Alloc(h, Node(interval, NIL, NIL))
    ELSE LET di == h[d].i IN
      IF IntervalContains(di, interval) THEN [h |-> h, n |-> d]
      ELSE IF LessThan(interval, di) THEN
             IF Adjacent(interval, di, 1)
             THEN joinLeft(h, NewInterval(Start(interval), End(di)),
                           h[d].left, h[d].right)
             ELSE LET sub == insert(h, interval, h[d].left)
                  IN  Alloc(sub.h, Node(di, sub.n, h[d].right))
      ELSE IF GreaterThan(interval, di) THEN
             IF Adjacent(interval, di, 1)
             THEN joinRight(h, Extend(di, interval), h[d].left, h[d].right)
             ELSE LET sub == insert(h, interval, h[d].right)
                  IN  Alloc(sub.h, Node(di, h[d].left, sub.n))
      ELSE IF IntervalContains(interval, di) THEN
             LET left == joinLeft(h, Extend(interval, di), h[d].left, h[d].right)
                 ln   == left.h[left.n]
             IN  joinRight(left.h, NewInterval(Start(ln.i), End(interval)),
                           ln.left, ln.right)
      ELSE IF StartsBefore(interval, di) THEN
             joinLeft(h, NewInterval(Start(interval), End(di)),
                      h[d].left, h[d].right)
      ELSE IF EndsAfter(interval, di) THEN
             joinRight(h, NewInterval(Start(di), End(interval)),
                       h[d].left, h[d].right)
      ELSE [h |-> h, n |-> d]

\* ---------------------------------------------------------------- queries
\* intersection with the slice right of l counted one short (max - l).
RECURSIVE intersectionOffByOne(_, _, _, _)
intersectionOffByOne(h, l, r, d) ==
    IF d = NIL THEN 0
    ELSE LET min == Start(h[d].i)
             max == End(h[d].i)
         IN
      IF l > max THEN
          IF h[d].right = NIL THEN 0 ELSE intersectionOffByOne(h, l, r, h[d].right)
      ELSE IF r < min THEN
          IF h[d].left = NIL THEN 0 ELSE intersectionOffByOne(h, l, r, h[d].left)
      ELSE IF l >= min THEN
          IF r <= max THEN r - l + 1
          ELSE (max - l)
               + (IF h[d].right # NIL
                  THEN intersectionOffByOne(h, max + 1, r, h[d].right) ELSE 0)
      ELSE IF r <= max THEN
          (r - min + 1)
          + (IF h[d].left # NIL
             THEN intersectionOffByOne(h, l, min - 1, h[d].left) ELSE 0)
      ELSE IF l <= min /\ r >= max THEN
          (max - min + 1)
          + (IF h[d].left # NIL
             THEN intersectionOffByOne(h, l, min - 1, h[d].left) ELSE 0)
          + (IF h[d].right # NIL
             THEN intersectionOffByOne(h, max + 1, r, h[d].right) ELSE 0)
      ELSE 0

\* d.min and d.max of the source are the bounds of the node's interval d.i.
RECURSIVE intersection(_, _, _, _)
intersection(h, l, r, d) ==
    IF d = NIL THEN 0
    ELSE LET min == Start(h[d].i)
             max == End(h[d].i)
         IN
      IF l > max THEN
          IF h[d].right = NIL THEN 0 ELSE intersection(h, l, r, h[d].right)
      ELSE IF r < min THEN
          IF h[d].left = NIL THEN 0 ELSE intersection(h, l, r, h[d].left)
      ELSE IF l >= min THEN
          IF r <= max THEN r - l + 1
          ELSE (max - l + 1)
               + (IF h[d].right # NIL
                  THEN intersection(h, max + 1, r, h[d].right) ELSE 0)
      ELSE IF r <= max THEN
          (r - min + 1)
          + (IF h[d].left # NIL
             THEN intersection(h, l, min - 1, h[d].left) ELSE 0)
      ELSE IF l <= min /\ r >= max THEN
          (max - min + 1)
          + (IF h[d].left # NIL
             THEN intersection(h, l, min - 1, h[d].left) ELSE 0)
          + (IF h[d].right # NIL
             THEN intersection(h, max + 1, r, h[d].right) ELSE 0)
      ELSE 0

RECURSIVE total(_, _)
total(h, d) ==
    IF d = NIL THEN 0
    ELSE End(h[d].i) - Start(h[d].i) + 1
         + total(h, h[d].left) + total(h, h[d].right)

RECURSIVE intersectionAll(_, _, _, _)
intersectionAll(h, d, oh, oroot) ==
    IF d = NIL THEN 0
    ELSE intersection(oh, Start(h[d].i), End(h[d].i), oroot)
         + intersectionAll(h, h[d].left, oh, oroot)
         + intersectionAll(h, h[d].right, oh, oroot)

\* --------------------------------------------------------------- balancer
\* compressStep with child.right = nil in place of child.right = scanner.left.
compressStepDropsLeft(h, rt, scanner) ==
    LET child == IF scanner = NIL THEN rt ELSE h[scanner].right IN
    IF child = NIL THEN [h |-> h, root |-> rt, scanner |-> scanner, ok |-> FALSE]
    ELSE
      LET rt1 == IF scanner = NIL THEN h[child].right ELSE rt
          h1  == IF scanner = NIL THEN h
                 ELSE [h EXCEPT ![scanner].right = h[child].right]
          sc1 == h1[child].right
      IN  IF sc1 = NIL
          THEN [h |-> h1, root |-> rt1, scanner |-> sc1, ok |-> FALSE]
          ELSE LET h2 == [h1 EXCEPT ![child].right = NIL]
                   h3 == [h2 EXCEPT ![sc1].left = child]
               IN  [h |-> h3, root |-> rt1, scanner |-> sc1, ok |-> TRUE]

\* One rotation of compress' loop body; ok is FALSE when the body would
\* dereference an absent node (child.right or scanner.left on nil).
compressStep(h, rt, scanner) ==
    LET child == IF scanner = NIL THEN rt ELSE h[scanner].right IN
    IF child = NIL THEN [h |-> h, root |-> rt, scanner |-> scanner, ok |-> FALSE]
    ELSE
      LET rt1 == IF scanner = NIL THEN h[child].right ELSE rt
          h1  == IF scanner = NIL THEN h
                 ELSE [h EXCEPT ![scanner].right = h[child].right]
          sc1 == h1[child].right
      IN  IF sc1 = NIL
          THEN [h |-> h1, root |-> rt1, scanner |-> sc1, ok |-> FALSE]
          ELSE LET h2 == [h1 EXCEPT ![child].right = h1[sc1].left]
                   h3 == [h2 EXCEPT ![sc1].left = child]
               IN  [h |-> h3, root |-> rt1, scanner |-> sc1, ok |-> TRUE]

RECURSIVE compressLoop(_, _, _, _, _)
compressLoop(h, rt, scanner, i, count) ==
    IF i >= count THEN [h |-> h, root |-> rt, ok |-> TRUE]
    ELSE LET s == compressStep(h, rt, scanner)
         IN  IF ~s.ok THEN [h |-> s.h, root |-> s.root, ok |-> FALSE]
             ELSE compressLoop(s.h, s.root, s.scanner, i + 1, count)

compress(h, rt, count) == compressLoop(h, rt, NIL, 0, count)

\* The doubling loop stopping one round early (r < i for r <= i).
RECURSIVE pow2LoopStrict(_, _)
pow2LoopStrict(r, i) == IF r < i THEN pow2LoopStrict(r * 2, i) ELSE r

RECURSIVE pow2Loop(_, _)
pow2Loop(r, i) == IF r <= i THEN pow2Loop(r * 2, i) ELSE r

\* nearestPow2 without the final r >> 1.
nearestPow2NoHalve(i) == pow2Loop(1, i)

nearestPow2(i) == pow2Loop(1, i) \div 2

\* toList with rest.left = nil in place of rest.left = temp.right.
RECURSIVE toListDropsRight(_, _, _, _)
toListDropsRight(h, tail, rest, size) ==
    IF rest = NIL THEN [h |-> h, size |-> size]
    ELSE IF h[rest].left = NIL
         THEN toListDropsRight(h, rest, h[rest].right, size + 1)
         ELSE LET temp == h[rest].left
                  h1   == [h EXCEPT ![rest].left = NIL]
                  h2   == [h1 EXCEPT ![temp].right = rest]
                  h3   == [h2 EXCEPT ![tail].right = temp]
              IN  toListDropsRight(h3, tail, temp, size)

\* The first loop of balance ("Convert to a linked list").
RECURSIVE toList(_, _, _, _)
toList(h, tail, rest, size) ==
    IF rest = NIL THEN [h |-> h, size |-> size]
    ELSE IF h[rest].left = NIL
         THEN toList(h, rest, h[rest].right, size + 1)
         ELSE LET temp == h[rest].left
                  h1   == [h EXCEPT ![rest].left = h[temp].right]
                  h2   == [h1 EXCEPT ![temp].right = rest]
                  h3   == [h2 EXCEPT ![tail].right = temp]
              IN  toList(h3, tail, temp, size)

\* The second loop of balance: for size > 1 { compress(root, size>>1) }.
RECURSIVE halveLoop(_, _, _)
halveLoop(h, rt, size) ==
    IF size > 1
    THEN LET c == compress(h, rt, size \div 2)
         IN  IF ~c.ok THEN c ELSE halveLoop(c.h, c.root, size \div 2)
    ELSE [h |-> h, root |-> rt, ok |-> TRUE]

balance(h, rt) ==
    LET list   == toList(h, rt, h[rt].right, 0)
        leaves == list.size + 1 - nearestPow2(list.size + 1)
        c      == compress(list.h, rt, leaves)
    IN  IF ~c.ok THEN c ELSE halveLoop(c.h, c.root, list.size - leaves)

\* ------------------------------------------------------------ tree walks
RECURSIVE InOrder(_, _)
InOrder(h, d) ==
    IF d = NIL THEN <<>>
    ELSE InOrder(h, h[d].left) \o <<h[d].i>> \o InOrder(h, h[d].right)

\* The node addresses of the subtree of d, in-order.
RECURSIVE Nodes(_, _)
Nodes(h, d) ==
    IF d = NIL THEN <<>>
    ELSE Nodes(h, h[d].left) \o <<d>> \o Nodes(h, h[d].right)

RECURSIVE Height(_, _)
Height(h, d) ==
    IF d = NIL THEN 0
    ELSE LET hl == Height(h, h[d].left)
             hr == Height(h, h[d].right)
         IN  1 + (IF hl >= hr THEN hl ELSE hr)

\* Garbage collection: the nodes no longer reachable from d are reclaimed and
\* the survivors are renumbered by in-order position (an address is observable
\* only through pointer equality). The result is the new heap and the new
\* address of d.
Collect(h, d) ==
    LET io    == Nodes(h, d)
        at(a) == IF a = NIL THEN NIL ELSE CHOOSE k \in 1..Len(io) : io[k] = a
    IN  [h |-> [k \in 1..Len(io) |->
                   Node(h[io[k]].i, at(h[io[k]].left), at(h[io[k]].right))],
         n |-> at(d)]

\* ------------------------------------------------------------ operations
Init ==
    /\ root = [t \in Trees |-> NIL]
    /\ heap = [t \in Trees |-> <<>>]
    /\ covered = [t \in Trees |-> {}]
    /\ lastOp = [op |-> "New", t |-> "A"]
    /\ watch = {}
    /\ pin = 0
    /\ pout = 0

\* intervalTree.Insert with one interval (a call with several is the same
\* as that many calls in a row).
Insert(t, i) ==
    /\ lastOp.op # "panic"
    /\ LET r == insert(heap[t], i, root[t])
           c == Collect(r.h, r.n)
       IN  /\ heap' = [heap EXCEPT ![t] = c.h]
           /\ root' = [root EXCEPT ![t] = c.n]
    /\ covered' = [covered EXCEPT ![t] = @ \cup Ints(i)]
    /\ lastOp' = [op |-> "Insert", t |-> t]
    /\ UNCHANGED <<pin, pout>>

\* intervalTree.Balance.
Balance(t) ==
    /\ lastOp.op # "panic"
    /\ IF root[t] # NIL
       THEN LET r == balance(heap[t], root[t])
            IN  /\ heap' = [heap EXCEPT ![t] = r.h]
                /\ root' = [root EXCEPT ![t] = IF r.ok THEN r.root ELSE @]
                /\ lastOp' = [op |-> IF r.ok THEN "Balance" ELSE "panic", t |-> t]
       ELSE /\ UNCHANGED <<heap, root>>
            /\ lastOp' = [op |-> "Balance", t |-> t]
    /\ UNCHANGED <<covered, watch, pin, pout>>

\* Insert on "A"; the history variable watch may take the interval given.
InsertA ==
    \E i \in Intervals(MaxVal) : Insert("A", i) /\ watch' \in {watch, {i}}

BalanceA == Balance("A")

Next == InsertA \/ BalanceA

Spec == Init /\ [][Next]_vars

\* Non-overlapping single-integer inserts: [x, x] with x not inserted before.
InsertSingle ==
    \E x \in 0..MaxSingle :
        x \notin covered["A"] /\ Insert("A", NewInterval(x, x)) /\ UNCHANGED watch

NextSingles == InsertSingle \/ BalanceA

SpecSingles == Init /\ [][NextSingles]_vars

InsertOnly == \E i \in Intervals(MaxIns) : Insert("A", i) /\ UNCHANGED watch

SpecInserts == Init /\ [][InsertOnly]_vars

InsertTwo ==
    \E t \in Trees : \E i \in Intervals(MaxValTwo) : Insert(t, i) /\ UNCHANGED watch

BalanceTwo == \E t \in Trees : Balance(t)

NextTwo == InsertTwo \/ BalanceTwo

SpecTwo == Init /\ [][NextTwo]_vars

SpecTwoInserts == Init /\ [][InsertTwo]_vars

\* Single-integer inserts [x, x] in any order, repeats included.
InsertAnySingle ==
    \E x \in 0..MaxSingle : Insert("A", NewInterval(x, x)) /\ UNCHANGED watch

SpecSingleInserts == Init /\ [][InsertAnySingle]_vars

\* i shares no integer with the inserted ones and at least one integer is
\* missing between i and each of them.
Apart(t, i) == \A x \in (Start(i) - 1)..(End(i) + 1) : x \notin covered[t]

\* Inserts of pairwise disjoint, pairwise non-adjacent intervals, in any order.
InsertDisjoint ==
    \E i \in Intervals(MaxDisj) :
        Apart("A", i) /\ Insert("A", i) /\ UNCHANGED watch

SpecDisjoint == Init /\ [][InsertDisjoint]_vars

\* nearestPow2 called on its own with an argument n >= 1.
InitPow2 ==
    /\ root = [t \in Trees |-> NIL]
    /\ heap = [t \in Trees |-> <<>>]
    /\ covered = [t \in Trees |-> {}]
    /\ lastOp = [op |-> "New", t |-> "A"]
    /\ watch = {}
    /\ pin \in 1..MaxPow
    /\ pout = 0

CallNearestPow2 ==
    /\ lastOp.op = "New"
    /\ pout' = nearestPow2(pin)
    /\ lastOp' = [op |-> "nearestPow2", t |-> "A"]
    /\ UNCHANGED <<root, heap, covered, watch, pin>>

SpecPow2 == InitPow2 /\ [][CallNearestPow2]_vars

\* ---------------------------------------------------------- public reads
Intersection(t, i) == intersection(heap[t], Start(i), End(i), root[t])

IntersectionAll(t, other) ==
    intersectionAll(heap[t], root[t], heap[other], root[other])

Total(t) == total(heap[t], root[t])

\* Contains comparing with End - Start, the length short by one.
ContainsShortLength(t, i) ==
    intersection(heap[t], Start(i), End(i), root[t]) = End(i) - Start(i)

Contains(t, i) ==
    intersection(heap[t], Start(i), End(i), root[t]) = End(i) - Start(i) + 1

\* Query intervals [l, r], l <= r, reaching one past each end of the domain.
Probes(max) == {i \in [s : (0 - 1)..(max + 1), e : (0 - 1)..(max + 1)] : i.s <= i.e}

Stored(t) == InOrder(heap[t], root[t])

\* prev.End + 1 < next.Start for every two consecutive intervals: increasing,
\* disjoint and not adjacent with gap 1.
MaximalDisjoint(seq) ==
    \A k \in 1..(Len(seq) - 1) : End(seq[k]) + 1 < Start(seq[k + 1])

\* ------------------------------------------------------------------ claims

\* C1: after any sequence of Inserts of valid intervals on an empty tree the
\* in-order traversal is strictly increasing, pairwise disjoint, and no two
\* consecutive intervals satisfy prev.End + 1 = next.Start.
C1_InOrderMaximalDisjoint == MaximalDisjoint(Stored("A"))

\* C2: after any sequence of Inserts, Total() is the number of distinct
\* integers covered by the union of the inserted intervals.
C2_TotalIsCardinality == Total("A") = Cardinality(covered["A"])

\* C3: Intersection([l, r]) is the number of integers of [l, r] covered by at
\* least one inserted interval.
C3_IntersectionCounts ==
    \A p \in Probes(MaxIns) :
        Intersection("A", p) = Cardinality(Ints(p) \cap covered["A"])

C3_Witness ==
    /\ Len(Stored("A")) >= 2
    /\ \E p \in Probes(MaxIns) :
          /\ Intersection("A", p) >= 2
          /\ Intersection("A", p) < End(p) - Start(p) + 1
          /\ \E k \in 1..(Len(Stored("A")) - 1) :
                /\ Start(p) <= End(Stored("A")[k])
                /\ End(p) >= Start(Stored("A")[k + 1])

\* C4: Contains(q) is true exactly when every integer of q is covered by some
\* inserted interval.
C4_ContainsIffCovered ==
    \A q \in Probes(MaxIns) : Contains("A", q) <=> Ints(q) \subseteq covered["A"]

C4_Witness ==
    /\ Len(Stored("A")) >= 2
    /\ \E q \in Probes(MaxIns) : Contains("A", q) /\ Start(q) < End(q)
    /\ \E q \in Probes(MaxIns) :
          /\ ~Contains("A", q)
          /\ Start(q) \in covered["A"]
          /\ End(q) \in covered["A"]

\* C5: Insert(i) of an interval whose integers are all covered already leaves
\* Total() and every Intersection(p) unchanged, and returns the very node it
\* visits when that node's interval contains i.
C5_CoveredInsertIdempotent ==
    \A i \in Intervals(MaxIns) :
        Ints(i) \subseteq covered["A"] =>
            LET r == insert(heap["A"], i, root["A"]) IN
            /\ total(r.h, r.n) = Total("A")
            /\ \A p \in Probes(MaxIns) :
                  intersection(r.h, Start(p), End(p), r.n) = Intersection("A", p)
            /\ (root["A"] # NIL /\ IntervalContains(heap["A"][root["A"]].i, i))
                  => (r.n = root["A"] /\ r.h = heap["A"])

\* The tree balance returns for the tree of t (root[t] # NIL).
Balanced(t) == balance(heap[t], root[t])

\* C6: for a tree built from non-overlapping single-integer inserts, Total()
\* and Intersection(p), for every probe p, are the same right before and right
\* after Balance().
C6_BalancePreservesQueries ==
    root["A"] # NIL =>
        LET b == Balanced("A") IN
        /\ b.ok
        /\ total(b.h, b.root) = Total("A")
        /\ \A p \in Probes(MaxSingle) :
              intersection(b.h, Start(p), End(p), b.root) = Intersection("A", p)

C6_Witness ==
    /\ lastOp.op = "Balance"
    /\ Len(heap["A"]) >= 6
    /\ heap["A"][root["A"]].left # NIL
    /\ heap["A"][root["A"]].right # NIL
    /\ Height(heap["A"], root["A"]) <= 3

\* C7: Balance() leaves the in-order sequence of stored intervals as it was,
\* and the node objects after it are exactly those before it: nothing is
\* allocated or dropped, only left, right and the root change.
C7_BalanceKeepsNodes ==
    root["A"] # NIL =>
        LET b == Balanced("A") IN
        /\ b.ok
        /\ InOrder(b.h, b.root) = Stored("A")
        /\ Nodes(b.h, b.root) = Nodes(heap["A"], root["A"])
        /\ DOMAIN b.h = DOMAIN heap["A"]
        /\ \A n \in DOMAIN b.h : b.h[n].i = heap["A"][n].i

C7_Witness ==
    /\ lastOp.op = "Balance"
    /\ Len(heap["A"]) >= 5
    /\ root["A"] # 1
    /\ \E n \in DOMAIN heap["A"] :
          heap["A"][n].left # NIL /\ heap["A"][n].right # NIL

RECURSIVE CeilLog2(_)
CeilLog2(n) == IF n <= 1 THEN 0 ELSE 1 + CeilLog2((n + 1) \div 2)

\* C8: after Balance() on any tree reachable by Inserts that holds N nodes,
\* the height (nodes on the longest root-to-leaf path) is ceil(log2(N+1)).
C8_BalancedHeightMinimal ==
    root["A"] # NIL =>
        LET b == Balanced("A") IN
        b.ok => Height(b.h, b.root) = CeilLog2(Len(Nodes(b.h, b.root)) + 1)

\* C9: A.IntersectionAll(B) = B.IntersectionAll(A) for any two trees built by
\* Inserts and, optionally, Balance.
C9_IntersectionAllSymmetric == IntersectionAll("A", "B") = IntersectionAll("B", "A")

\* C10: A.IntersectionAll(B) is the number of integers covered both by A's and
\* by B's inserted intervals.
C10_IntersectionAllCounts ==
    IntersectionAll("A", "B") = Cardinality(covered["A"] \cap covered["B"])

\* The maximal runs of consecutive integers of S, ascending.
RECURSIVE RunEnd(_, _)
RunEnd(S, x) == IF x + 1 \in S THEN RunEnd(S, x + 1) ELSE x

RECURSIVE Runs(_)
Runs(S) ==
    IF S = {} THEN <<>>
    ELSE LET lo == CHOOSE x \in S : \A y \in S : x <= y
             hi == RunEnd(S, lo)
         IN  <<NewInterval(lo, hi)>> \o Runs(S \ (lo..hi))

\* C11: after any sequence of single-integer Inserts the tree holds exactly one
\* node per maximal run of consecutive inserted integers (so inserting the one
\* integer missing between two stored intervals fuses all three), and Total()
\* counts the inserted integers.
C11_OneNodePerRun ==
    /\ Stored("A") = Runs(covered["A"])
    /\ Total("A") = Cardinality(covered["A"])
    /\ \A x \in 0..MaxSingle :
          LET r == insert(heap["A"], NewInterval(x, x), root["A"])
          IN  InOrder(r.h, r.n) = Runs(covered["A"] \cup {x})

C11_Witness ==
    \E k \in 1..(Len(Stored("A")) - 1) :
        /\ End(Stored("A")[k]) + 2 = Start(Stored("A")[k + 1])
        /\ LET x == End(Stored("A")[k]) + 1
               r == insert(heap["A"], NewInterval(x, x), root["A"])
           IN  /\ Len(InOrder(r.h, r.n)) = Len(Stored("A")) - 1
               /\ total(r.h, r.n) = Total("A") + 1

\* seq with interval i put at its place in ascending order of Start.
PutInOrder(seq, i) ==
    LET below == SelectSeq(seq, LAMBDA j : Start(j) < Start(i))
        above == SelectSeq(seq, LAMBDA j : Start(j) >= Start(i))
    IN  below \o <<i>> \o above

\* C12: after Inserts of k pairwise disjoint and pairwise non-adjacent
\* intervals, in any order, the tree holds exactly k nodes carrying exactly
\* those intervals, and Total() is the sum of their lengths: every such Insert
\* adds one node carrying its interval and leaves the others as they were.
C12_DisjointInsertsKept ==
    /\ Stored("A") = Runs(covered["A"])
    /\ Total("A") = Cardinality(covered["A"])
    /\ \A i \in Intervals(MaxDisj) :
          Apart("A", i) =>
              LET r == insert(heap["A"], i, root["A"]) IN
              /\ InOrder(r.h, r.n) = PutInOrder(Stored("A"), i)
              /\ total(r.h, r.n) = Total("A") + (End(i) - Start(i) + 1)

C12_Witness ==
    /\ Len(Stored("A")) >= 3
    /\ heap["A"][root["A"]].left # NIL
    /\ heap["A"][root["A"]].right # NIL
    /\ \E k \in 1..Len(Stored("A")) : Start(Stored("A")[k]) < End(Stored("A")[k])
    /\ Total("A") = Cardinality(covered["A"])

\* C13: once Insert(i) has returned, Contains(i) is true and stays true after
\* every later sequence of Insert and Balance calls on the same tree.
C13_InsertedStaysContained == \A i \in watch : Contains("A", i)

\* The nodes met from d along right pointers.
RECURSIVE RightChain(_, _)
RightChain(h, d) == IF d = NIL THEN <<>> ELSE <<d>> \o RightChain(h, h[d].right)

\* The heap when the first loop of balance ends (rest = nil).
Listed(t) == toList(heap[t], root[t], heap[t][root[t]].right, 0).h

\* C14: when the first loop of balance ends no node of the tree has a left
\* child, the nodes form one right-linked chain from root as long as the
\* tree's node count, and the in-order sequence is unchanged.
C14_FirstLoopMakesList ==
    root["A"] # NIL =>
        /\ \A n \in DOMAIN Listed("A") : Listed("A")[n].left = NIL
        /\ Len(RightChain(Listed("A"), root["A"])) = Len(Nodes(heap["A"], root["A"]))
        /\ InOrder(Listed("A"), root["A"]) = Stored("A")

\* The nodes met from d along left pointers.
RECURSIVE LeftChain(_, _)
LeftChain(h, d) == IF d = NIL THEN <<>> ELSE <<d>> \o LeftChain(h, h[d].left)

Members(seq) == {seq[k] : k \in 1..Len(seq)}

\* The nodes insert(interval, d) visits: the path from d to the place of the
\* insertion, and the nodes splitMax / splitMin visit when it joins.
RECURSIVE Walked(_, _, _)
Walked(h, interval, d) ==
    IF d = NIL THEN {}
    ELSE LET di     == h[d].i
             byMax  == Members(RightChain(h, h[d].left))
             byMin  == Members(LeftChain(h, h[d].right))
         IN
      IF IntervalContains(di, interval) THEN {d}
      ELSE IF LessThan(interval, di) THEN
             IF Adjacent(interval, di, 1) THEN {d} \cup byMax
             ELSE {d} \cup Walked(h, interval, h[d].left)
      ELSE IF GreaterThan(interval, di) THEN
             IF Adjacent(interval, di, 1) THEN {d} \cup byMin
             ELSE {d} \cup Walked(h, interval, h[d].right)
      ELSE IF IntervalContains(interval, di) THEN {d} \cup byMax \cup byMin
      ELSE IF StartsBefore(interval, di) THEN {d} \cup byMax
      ELSE IF EndsAfter(interval, di) THEN {d} \cup byMin
      ELSE {d}

\* C15: Insert writes to no node that existed before the call, allocates new
\* nodes only for the nodes it walks (one more for a new leaf), reuses every
\* other node by reference, and the root taken before the call still yields
\* the same in-order sequence.
C15_InsertWritesNoOldNode ==
    \A i \in Intervals(MaxIns) :
        LET r   == insert(heap["A"], i, root["A"])
            old == DOMAIN heap["A"]
        IN  /\ Len(r.h) >= Len(heap["A"])
            /\ \A n \in old : r.h[n] = heap["A"][n]
            /\ InOrder(r.h, root["A"]) = Stored("A")
            /\ Len(r.h) - Len(heap["A"])
                  <= Cardinality(Walked(heap["A"], i, root["A"])) + 1
            /\ (old \ Walked(heap["A"], i, root["A"]))
                  \subseteq Members(Nodes(r.h, r.n))

C15_Witness ==
    /\ lastOp.op = "Insert"
    /\ Len(heap["A"]) >= 3
    /\ \E i \in Intervals(MaxIns) :
          LET r == insert(heap["A"], i, root["A"])
          IN  /\ Len(r.h) >= Len(heap["A"]) + 2
              /\ \E n \in DOMAIN heap["A"] :
                    /\ n \notin Walked(heap["A"], i, root["A"])
                    /\ n \in Members(Nodes(r.h, r.n))
              /\ InOrder(r.h, r.n) # Stored("A")
              /\ InOrder(r.h, root["A"]) = Stored("A")

RECURSIVE IsPow2(_)
IsPow2(n) == n = 1 \/ (n > 1 /\ n % 2 = 0 /\ IsPow2(n \div 2))

\* C16: for every non-empty tree balance runs to its end: every rotation of
\* every compress call finds a child and a child.right (scanner) to rotate
\* with, and after the first compress the remaining size counter is a power
\* of two minus one.
C16_BalanceIsTotal ==
    root["A"] # NIL =>
        LET list   == toList(heap["A"], root["A"], heap["A"][root["A"]].right, 0)
            leaves == list.size + 1 - nearestPow2(list.size + 1)
            first  == compress(list.h, root["A"], leaves)
        IN  /\ first.ok
            /\ IsPow2(list.size - leaves + 1)
            /\ Balanced("A").ok

C16_Witness ==
    /\ lastOp.op = "Balance"
    /\ Len(heap["A"]) >= 5
    /\ heap["A"][root["A"]].left # NIL
    /\ LET list == toList(heap["A"], root["A"], heap["A"][root["A"]].right, 0)
       IN  /\ list.size >= 2
           /\ list.size + 1 - nearestPow2(list.size + 1) >= 1

\* C17: for every n >= 1 nearestPow2(n) is the largest power of two p with
\* p <= n, that is p = 2^k and p <= n < 2p.
C17_NearestPow2 ==
    lastOp.op = "nearestPow2" =>
        /\ IsPow2(pout)
        /\ pout <= pin
        /\ pin < 2 * pout

C17_Witness == lastOp.op = "nearestPow2" /\ pin = 64 /\ pout = 64

====
